---- MODULE Spec2Model ----
(***************************************************************************)
(* Coordinate-resolution pipeline of the interactive map (src/script.js,   *)
(* HEAD side of the file): the marker loop of the DOMContentLoaded handler,*)
(* getCoordsForPlace and its stages (explicit fields, combined field,      *)
(* geocode cache, live geocoding with the inter-request delay).            *)
(*                                                                         *)
(* Texts are sequences of one-character strings.  Numbers are fixed-point  *)
(* integers in hundredths (19.43 is 1943), so every text of the model has  *)
(* at most two fractional digits.                                          *)
(***************************************************************************)
EXTENDS Integers, Sequences, FiniteSets, TLC

\* ------------------------------------------------------------------------
\* Characters and texts
\* ------------------------------------------------------------------------

\* hundredths per unit
Scale == 10 * 10

Digits == <<"0", "1", "2", "3", "4", "5", "6", "7", "8", "9">>

IsDigit(c) == \E i \in 1..10 : Digits[i] = c

DigitVal(c) == (CHOOSE i \in 1..10 : Digits[i] = c) - 1

\* the only whitespace character of the model's alphabet (JS \s)
IsSpace(c) == c = " "

AllDigits(s) == \A i \in 1..Len(s) : IsDigit(s[i])

RECURSIVE DigitsVal(_)
DigitsVal(s) ==
  IF s = <<>> THEN 0
  ELSE DigitsVal(SubSeq(s, 1, Len(s) - 1)) * 10 + DigitVal(s[Len(s)])

\* value in hundredths of the fractional digits (digits past the second are
\* below the model's precision)
FracVal(fp) ==
  IF Len(fp) = 0 THEN 0
  ELSE IF Len(fp) = 1 THEN DigitVal(fp[1]) * 10
  ELSE DigitVal(fp[1]) * 10 + DigitVal(fp[2])

\* index of the first occurrence of c in s, 0 when there is none
IndexOf(s, c) ==
  IF \E i \in 1..Len(s) : s[i] = c
  THEN CHOOSE i \in 1..Len(s) : s[i] = c /\ \A j \in 1..(i - 1) : s[j] # c
  ELSE 0

RECURSIVE TrimLeft(_)
TrimLeft(s) == IF s # <<>> /\ IsSpace(Head(s)) THEN TrimLeft(Tail(s)) ELSE s

RECURSIVE TrimRight(_)
TrimRight(s) ==
  IF s # <<>> /\ IsSpace(s[Len(s)]) THEN TrimRight(SubSeq(s, 1, Len(s) - 1)) ELSE s

\* String.prototype.trim
trim(s) == TrimRight(TrimLeft(s))

\* String.prototype.replace(c, d) with a string pattern: the first occurrence only
ReplaceFirst(s, c, d) ==
  LET i == IndexOf(s, c)
  IN IF i = 0 THEN s ELSE [s EXCEPT ![i] = d]

\* ------------------------------------------------------------------------
\* Numbers
\* ------------------------------------------------------------------------

Null == [ok |-> FALSE, v |-> 0]
Num(n) == [ok |-> TRUE, v |-> n]

\* JS values read by toNumberOrNull: undefined/null, or a string
Undefined == [def |-> FALSE, s |-> <<>>]
Str(s) == [def |-> TRUE, s |-> s]

\* Number(string): whitespace is trimmed, the empty string is 0, a signed
\* decimal literal is its value, anything else is NaN (finite = FALSE).
\* (Exponents, hex literals and "Infinity" are outside the model's alphabet.)
\* the value of sign, integer digits ip and fractional digits fp, when they
\* make a decimal literal
DecimalParts(neg, ip, fp) ==
  IF AllDigits(ip) /\ AllDigits(fp) /\ Len(ip) + Len(fp) >= 1
  THEN [finite |-> TRUE,
        v |-> (IF neg THEN 0 - 1 ELSE 1) * (DigitsVal(ip) * Scale + FracVal(fp))]
  ELSE [finite |-> FALSE, v |-> 0]

DecimalAt(neg, body, dot) ==
  DecimalParts(neg,
               IF dot = 0 THEN body ELSE SubSeq(body, 1, dot - 1),
               IF dot = 0 THEN <<>> ELSE SubSeq(body, dot + 1, Len(body)))

NumberTrimmed(t) ==
  IF t = <<>> THEN [finite |-> TRUE, v |-> 0]
  ELSE IF Head(t) \in {"+", "-"} THEN DecimalAt(Head(t) = "-", Tail(t), IndexOf(Tail(t), "."))
  ELSE DecimalAt(FALSE, t, IndexOf(t, "."))

Number(s) == NumberTrimmed(trim(s))

\* toNumberOrNull: null for undefined/null, else Number(String(v).replace(',', '.'))
\* when finite
FiniteOrNull(n) == IF n.finite THEN Num(n.v) ELSE Null

toNumberOrNull(v) ==
  IF ~v.def THEN Null ELSE FiniteOrNull(Number(ReplaceFirst(v.s, ",", ".")))

isValidLat(n) == n >= 0 - 90 * Scale /\ n <= 90 * Scale

isValidLng(n) == n >= 0 - 180 * Scale /\ n <= 180 * Scale

\* a bounds hint: set = FALSE is the configuration value null
NoHint == [set |-> FALSE, minLat |-> 0, maxLat |-> 0, minLng |-> 0, maxLng |-> 0]

isInsideBounds(lat, lng, b) ==
  IF ~b.set THEN TRUE
  ELSE lat >= b.minLat /\ lat <= b.maxLat /\ lng >= b.minLng /\ lng <= b.maxLng

\* ------------------------------------------------------------------------
\* Configuration
\* ------------------------------------------------------------------------

GEOCODE_DELAY_MS == 900

FORCE_COORDINATE_ORDER == "auto"

BOUNDS_HINT == NoHint

\* ------------------------------------------------------------------------
\* Combined-coordinate parser
\* ------------------------------------------------------------------------

\* a coordinate pair or null
NoPair == [ok |-> FALSE, lat |-> 0, lng |-> 0]
Pair(a, b) == [ok |-> TRUE, lat |-> a, lng |-> b]

\* replace(/\s+/g, ' ')
RECURSIVE CollapseWs(_)
CollapseWs(s) ==
  IF s = <<>> THEN <<>>
  ELSE IF IsSpace(Head(s)) THEN <<" ">> \o CollapseWs(TrimLeft(s))
  ELSE <<Head(s)>> \o CollapseWs(Tail(s))

\* replace(/[[\]()]/g, '')
IsBracket(c) == c \in {"[", "]", "(", ")"}
StripBrackets(s) == SelectSeq(s, LAMBDA c : ~IsBracket(c))

\* replace(/\s*[seps]\s*/g, ',')
RECURSIVE NormSep(_, _)
NormSep(s, seps) ==
  IF s = <<>> THEN <<>>
  ELSE LET r == TrimLeft(s)
       IN IF r # <<>> /\ Head(r) \in seps
          THEN <<",">> \o NormSep(TrimLeft(Tail(r)), seps)
          ELSE <<Head(s)>> \o NormSep(Tail(s), seps)

NormalizeCoordText(text) ==
  NormSep(NormSep(StripBrackets(CollapseWs(trim(text))), {";", ",", "|"}), {","})

\* split(/[,\s]+/)
IsSepChar(c) == c = "," \/ IsSpace(c)

RECURSIVE SkipSep(_)
SkipSep(s) == IF s # <<>> /\ IsSepChar(Head(s)) THEN SkipSep(Tail(s)) ELSE s

RECURSIVE SplitFrom(_, _)
SplitFrom(s, cur) ==
  IF s = <<>> THEN <<cur>>
  ELSE IF IsSepChar(Head(s)) THEN <<cur>> \o SplitFrom(SkipSep(s), <<>>)
  ELSE SplitFrom(Tail(s), Append(cur, Head(s)))

SplitCoords(s) == SplitFrom(s, <<>>)

\* match(/[-+]?\d+(?:[.,]\d+)?/g)
RECURSIVE DigitRun(_)
DigitRun(s) == IF s # <<>> /\ IsDigit(Head(s)) THEN 1 + DigitRun(Tail(s)) ELSE 0

\* length of the match anchored at the start of s, 0 when there is none
MatchAt(s) ==
  LET sg == IF s # <<>> /\ Head(s) \in {"-", "+"} THEN 1 ELSE 0
      d1 == DigitRun(SubSeq(s, sg + 1, Len(s)))
      n1 == sg + d1
      d2 == IF Len(s) > n1 /\ s[n1 + 1] \in {".", ","}
            THEN DigitRun(SubSeq(s, n1 + 2, Len(s))) ELSE 0
  IN IF d1 = 0 THEN 0 ELSE IF d2 > 0 THEN n1 + 1 + d2 ELSE n1

RECURSIVE NumberMatches(_)
NumberMatches(s) ==
  IF s = <<>> THEN <<>>
  ELSE LET m == MatchAt(s)
       IN IF m > 0 THEN <<SubSeq(s, 1, m)>> \o NumberMatches(SubSeq(s, m + 1, Len(s)))
          ELSE NumberMatches(Tail(s))

\* mutant: the bounds hint is never consulted
ChoosePair_NoHint(a, b, hint) ==
  IF isValidLat(a) /\ isValidLng(b) THEN Pair(a, b)
  ELSE IF isValidLat(b) /\ isValidLng(a) THEN Pair(b, a)
  ELSE NoPair

\* the candidate choice shared by the two-token and the free-form tiers;
\* NoPair stands for "fall through to the next tier"
ChoosePair(a, b, hint) ==
  LET c1 == isValidLat(a) /\ isValidLng(b)
      c2 == isValidLat(b) /\ isValidLng(a)
      in1 == isInsideBounds(a, b, hint)
      in2 == isInsideBounds(b, a, hint)
  IN IF c1 /\ ~c2 THEN Pair(a, b)
     ELSE IF c2 /\ ~c1 THEN Pair(b, a)
     ELSE IF c1 /\ c2 /\ hint.set /\ in1 /\ ~in2 THEN Pair(a, b)
     ELSE IF c1 /\ c2 /\ hint.set /\ in2 /\ ~in1 THEN Pair(b, a)
     ELSE IF c1 THEN Pair(a, b)
     ELSE NoPair

\* the number of the i-th token, null when there is no such token
TokenNumber(toks, i) == IF Len(toks) >= i THEN toNumberOrNull(Str(toks[i])) ELSE Null

FirstOk(a, b) == IF a.ok THEN a ELSE b

\* np tokens with first numbers fa, fb; nm regex matches with first numbers ma, mb
ParseChoice(np, fa, fb, nm, ma, mb, order, hint) ==
  IF order \in {"latlng", "lnglat"} /\ np >= 2 /\ fa.ok /\ fb.ok
  THEN (IF order = "latlng" THEN Pair(fa.v, fb.v) ELSE Pair(fb.v, fa.v))
  ELSE FirstOk(IF np = 2 /\ fa.ok /\ fb.ok THEN ChoosePair(fa.v, fb.v, hint) ELSE NoPair,
               IF nm >= 2 /\ ma.ok /\ mb.ok THEN ChoosePair(ma.v, mb.v, hint) ELSE NoPair)

ParseTokens(parts, ms, order, hint) ==
  ParseChoice(Len(parts), TokenNumber(parts, 1), TokenNumber(parts, 2),
              Len(ms), TokenNumber(ms, 1), TokenNumber(ms, 2), order, hint)

ParseNormalized(s, order, hint) == ParseTokens(SplitCoords(s), NumberMatches(s), order, hint)

parseCoordinatePairWith(text, order, hint) ==
  ParseNormalized(NormalizeCoordText(text), order, hint)

parseCoordinatePair(text) ==
  parseCoordinatePairWith(text, FORCE_COORDINATE_ORDER, BOUNDS_HINT)

\* ------------------------------------------------------------------------
\* Geocode cache (localStorage)
\* ------------------------------------------------------------------------

\* decimal text of a non-negative integer
RECURSIVE IntText(_)
IntText(k) ==
  IF k < 10 THEN <<Digits[k + 1]>>
  ELSE IntText(k \div 10) \o <<Digits[(k % 10) + 1]>>

\* JSON.stringify of a finite number (hundredths): shortest decimal text
NumToText(n) ==
  LET m == IF n < 0 THEN 0 - n ELSE n
      f == m % Scale
      d1 == f \div 10
      d2 == f % 10
      frac == IF f = 0 THEN <<>>
              ELSE IF d2 = 0 THEN <<".", Digits[d1 + 1]>>
              ELSE <<".", Digits[d1 + 1], Digits[d2 + 1]>>
  IN (IF n < 0 THEN <<"-">> ELSE <<>>) \o IntText(m \div Scale) \o frac

\* A stored item (the string localStorage holds under a key), by its syntax:
\*   none : no item (getItem returns null)     empty: the empty string
\*   text : a string that is not JSON          json : a JSON value whose
\*   lat / lng members are a number literal (t = "num"), a string literal
\*   (t = "str") or missing (t = "absent"; also a JSON value with no members)
JAbsent == [t |-> "absent", s |-> <<>>]
JNum(s) == [t |-> "num", s |-> s]
JStr(s) == [t |-> "str", s |-> s]
NoItem == [kind |-> "none", lat |-> JAbsent, lng |-> JAbsent]
EmptyItem == [kind |-> "empty", lat |-> JAbsent, lng |-> JAbsent]
TextItem == [kind |-> "text", lat |-> JAbsent, lng |-> JAbsent]
JsonItem(lat, lng) == [kind |-> "json", lat |-> lat, lng |-> lng]

\* `geocodeCache::${address}`
CacheKey(address) ==
  <<"g", "e", "o", "c", "o", "d", "e", "C", "a", "c", "h", "e", ":", ":">> \o address

\* a cache lookup result: null (ok = FALSE) or {lat, lng}
NoCached == [ok |-> FALSE, lat |-> 0, lng |-> 0]

Cached(lat, lng) == [ok |-> TRUE, lat |-> lat.v, lng |-> lng.v]

\* what getCachedGeocode makes of the item: !raw, JSON.parse, the typeof checks
ParseItem(item) ==
  IF item.kind \in {"none", "empty"} THEN NoCached
  ELSE IF item.kind = "text" THEN NoCached
  ELSE IF item.lat.t = "num" /\ item.lng.t = "num"
       THEN Cached(Number(item.lat.s), Number(item.lng.s))
       ELSE NoCached

ParseItem_NoTypeCheck(item) ==
  IF item.kind \in {"none", "empty", "text"} THEN NoCached
  ELSE IF item.lat.t # "absent" /\ item.lng.t # "absent"
            /\ Number(item.lat.s).finite /\ Number(item.lng.s).finite
       THEN Cached(Number(item.lat.s), Number(item.lng.s))
       ELSE NoCached

\* mutant: the members' types are not checked, a string member is converted
getCachedGeocode_NoTypeCheck(st, mode, address) ==
  IF mode = "denied" THEN NoCached ELSE ParseItem_NoTypeCheck(st[CacheKey(address)])

\* mutant: the key drops the address, every address shares one entry
getCachedGeocode_SharedKey(st, mode, address) ==
  IF mode = "denied" THEN NoCached
  ELSE IF \E k \in DOMAIN st : ParseItem(st[k]).ok
       THEN ParseItem(st[CHOOSE k \in DOMAIN st : ParseItem(st[k]).ok])
       ELSE NoCached

\* mode: "ok", "denied" (every storage access throws) or "full" (setItem throws)
\* mutant: the type test asks for strings, so entries written by
\* setCachedGeocode never hit
ParseItem_WantsStrings(item) ==
  IF item.kind = "json" /\ item.lat.t = "str" /\ item.lng.t = "str"
     /\ Number(item.lat.s).finite /\ Number(item.lng.s).finite
  THEN Cached(Number(item.lat.s), Number(item.lng.s))
  ELSE NoCached

getCachedGeocode_WantsStrings(st, mode, address) ==
  IF mode = "denied" THEN NoCached ELSE ParseItem_WantsStrings(st[CacheKey(address)])

getCachedGeocode(st, mode, address) ==
  IF mode = "denied" THEN NoCached ELSE ParseItem(st[CacheKey(address)])

\* the storage after setCachedGeocode(address, lat, lng)
setCachedGeocode(st, mode, address, lat, lng) ==
  IF mode \in {"denied", "full"} THEN st
  ELSE [st EXCEPT ![CacheKey(address)] = JsonItem(JNum(NumToText(lat)), JNum(NumToText(lng)))]

\* ------------------------------------------------------------------------
\* Geocoding client
\* ------------------------------------------------------------------------

\* A response of the geocoding service, by what fetch / res.json() give:
\*   network   : fetch rejects          http     : res.ok is false
\*   badJson   : res.json() rejects     notArray : JSON that is no array
\*   emptyArray: []                     array    : data[0] has members lat, lon
Resp(kind, lat, lon) == [kind |-> kind, lat |-> lat, lon |-> lon]

NoGeo == [ok |-> FALSE, lat |-> 0, lng |-> 0]

\* if (lat == null || lng == null) return null; return { lat, lng }
GeoOf(lat, lng) ==
  IF ~lat.ok \/ ~lng.ok THEN NoGeo ELSE [ok |-> TRUE, lat |-> lat.v, lng |-> lng.v]

GeoOf_BothNull(lat, lng) ==
  IF ~lat.ok /\ ~lng.ok THEN NoGeo ELSE [ok |-> TRUE, lat |-> lat.v, lng |-> lng.v]

\* mutant: "lat == null && lng == null", one missing coordinate passes as 0
geocodeAddressNominatim_BothNull(r) ==
  IF r.kind \in {"network", "http", "badJson", "notArray", "emptyArray"} THEN NoGeo
  ELSE GeoOf_BothNull(toNumberOrNull(r.lat), toNumberOrNull(r.lon))

\* the value geocodeAddressNominatim resolves to, given the service's response
geocodeAddressNominatim(r) ==
  IF r.kind \in {"network", "http", "badJson", "notArray", "emptyArray"} THEN NoGeo
  ELSE GeoOf(toNumberOrNull(r.lat), toNumberOrNull(r.lon))

\* ------------------------------------------------------------------------
\* Places
\* ------------------------------------------------------------------------

\* pick(obj, keys) of mapRowsToSchema, on the cell found under the keys
pick(cell) == IF cell.def /\ trim(cell.s) # <<>> THEN trim(cell.s) ELSE <<>>

\* mapRowsToSchema on one row (the fields the resolution reads)
mapRowToSchema(row) ==
  [direccion |-> pick(row.direccion),
   coordenadas |-> pick(row.coordenadas),
   latitud |-> pick(row.latitud),
   longitud |-> pick(row.longitud)]

\* stage 1 of getCoordsForPlace: the explicit latitud / longitud fields, as
\* numbers or null
ExplicitPair(lat, lng) ==
  IF lat.ok /\ lng.ok
  THEN IF isValidLat(lat.v) /\ isValidLng(lng.v) THEN Pair(lat.v, lng.v)
       ELSE IF isValidLat(lng.v) /\ isValidLng(lat.v) THEN Pair(lng.v, lat.v)
       ELSE NoPair
  ELSE NoPair

\* mutant: no axis-swap correction
ExplicitPair_NoSwap(lat, lng) ==
  IF lat.ok /\ lng.ok /\ isValidLat(lat.v) /\ isValidLng(lng.v) THEN Pair(lat.v, lng.v)
  ELSE NoPair

\* mutant: the reversed order is tried first
ExplicitPair_LngLat(lat, lng) ==
  IF lat.ok /\ lng.ok
  THEN IF isValidLat(lng.v) /\ isValidLng(lat.v) THEN Pair(lng.v, lat.v)
       ELSE IF isValidLat(lat.v) /\ isValidLng(lng.v) THEN Pair(lat.v, lng.v)
       ELSE NoPair
  ELSE NoPair

ExplicitCoords_NoSwap(place) ==
  ExplicitPair_NoSwap(toNumberOrNull(Str(place.latitud)), toNumberOrNull(Str(place.longitud)))

ExplicitCoords_LngLat(place) ==
  ExplicitPair_LngLat(toNumberOrNull(Str(place.latitud)), toNumberOrNull(Str(place.longitud)))

ExplicitCoords(place) ==
  ExplicitPair(toNumberOrNull(Str(place.latitud)), toNumberOrNull(Str(place.longitud)))

\* stage 2 of getCoordsForPlace: the combined coordenadas field
\* the parsed pair as given when valid, reversed when valid only so
OrientPair(parsed) ==
  IF ~parsed.ok THEN NoPair
  ELSE IF isValidLat(parsed.lat) /\ isValidLng(parsed.lng) THEN Pair(parsed.lat, parsed.lng)
  ELSE IF isValidLat(parsed.lng) /\ isValidLng(parsed.lat) THEN Pair(parsed.lng, parsed.lat)
  ELSE NoPair

CombinedOf(coordField) ==
  IF coordField = <<>> THEN NoPair ELSE OrientPair(parseCoordinatePair(coordField))

CombinedCoords(place) == CombinedOf(trim(place.coordenadas))

\* ------------------------------------------------------------------------
\* Inputs: the feed's cells, the stored items, the service's responses
\* ------------------------------------------------------------------------

MaxPlaces == 2

MaxLatencySteps == 1

\* granularity of the clock (ms)
TimeStep == GEOCODE_DELAY_MS \div 2

T_19c43 == <<"1", "9", ",", "4", "3">>
T_19p43 == <<"1", "9", ".", "4", "3">>
T_m99p13 == <<"-", "9", "9", ".", "1", "3">>
T_90 == <<"9", "0">>
T_m180 == <<"-", "1", "8", "0">>
T_200 == <<"2", "0", "0">>
T_95 == <<"9", "5">>
T_x == <<"x">>

\* cells of the latitud / longitud columns
FieldCells == {Undefined, Str(<<>>), Str(T_x), Str(T_19c43),
               Str(T_90), Str(T_m180), Str(T_200)}

\* cells of the coordenadas column: none, "19.43, -99.13", "(120;45)", "200,50"
CoordCells == {Str(<<>>),
               Str(<<"1", "9", ".", "4", "3", ",", " ", "-", "9", "9", ".", "1", "3">>),
               Str(<<"(", "1", "2", "0", ";", "4", "5", ")">>),
               Str(<<"2", "0", "0", ",", "5", "0">>)}

Addr1 == <<"A", "v", " ", "1">>
Addr2 == <<"R", "i", "o", " ", "2">>
Addrs == {Addr1, Addr2}

\* cells of the direccion column
AddrCells == {Undefined, Str(Addr1), Str(Addr2)}

Rows == [direccion : AddrCells, coordenadas : CoordCells,
         latitud : FieldCells, longitud : FieldCells]

\* const places = mapRowsToSchema(rows): what a Place can be
Places == {mapRowToSchema(row) : row \in Rows}

EmptyStore == [k \in {CacheKey(a) : a \in Addrs} |-> NoItem]

\* what the storage may hold for Addr1 when the page loads: nothing, an entry
\* of an earlier run, an entry with out-of-range numbers, and damaged items
InitItems == {NoItem,
              JsonItem(JNum(T_19p43), JNum(T_m99p13)),
              JsonItem(JNum(T_95), JNum(T_200)),
              JsonItem(JStr(T_19p43), JStr(T_m99p13)),
              TextItem}

StorageModes == {"ok", "denied", "full"}

Responses == {Resp("network", Undefined, Undefined),
              Resp("http", Undefined, Undefined),
              Resp("badJson", Undefined, Undefined),
              Resp("notArray", Undefined, Undefined),
              Resp("emptyArray", Undefined, Undefined),
              Resp("array", Undefined, Str(T_m99p13)),
              Resp("array", Str(T_x), Str(T_m99p13)),
              Resp("array", Str(T_19p43), Str(T_m99p13)),
              Resp("array", Str(<<>>), Str(T_200))}

NoResp == Resp("none", Undefined, Undefined)

NoPlace == [direccion |-> <<>>, coordenadas |-> <<>>, latitud |-> <<>>, longitud |-> <<>>]

Min(a, b) == IF a <= b THEN a ELSE b

\* ------------------------------------------------------------------------
\* The run: DOMContentLoaded handler and getCoordsForPlace
\* ------------------------------------------------------------------------

VARIABLES
  pc,          \* position of the handler
  nPlaces,     \* places.length
  idx,         \* number of Places the loop has finished
  place,       \* the Place being resolved
  coords,      \* what getCoordsForPlace returns for it
  source,      \* the return statement that produced coords
  trace,       \* the stages getCoordsForPlace has gone through for it
  resp,        \* the geocoding service's response for it
  raw,         \* what getCachedGeocode read from the storage for it
  store,       \* localStorage: key -> item
  mode,        \* availability of localStorage
  allMarkers,  \* indexes of the Places that got a marker
  created, failed, geocoded, usedLatLng, skipped,
  reqTotal,    \* geocoding requests sent in the run
  sleeps,      \* completed sleep(GEOCODE_DELAY_MS) calls in the run
  sinceReq,    \* ms since the last request was sent (saturates at GEOCODE_DELAY_MS)
  lastSet,     \* address -> the pair last passed to setCachedGeocode for it
  got,         \* cache exercise: the last lookup, [addr, res]
  probe        \* parser exercise: the last parseCoordinatePair call

vars == <<pc, nPlaces, idx, place, coords, source, trace, resp, raw, store, mode,
          allMarkers, created, failed, geocoded, usedLatLng, skipped,
          reqTotal, sleeps, sinceReq, lastSet, got, probe>>

counters == <<allMarkers, created, failed, geocoded, usedLatLng, skipped>>
clock == <<reqTotal, sleeps, sinceReq>>
exercise == <<lastSet, got, probe>>

NoLookup == [addr |-> <<>>, res |-> NoCached]

\* a call of parseCoordinatePair under a configured hint: the two tokens and the
\* separator of its text, and its result once it has returned
NoProbe == [a |-> <<>>, sep |-> <<>>, b |-> <<>>, hint |-> NoHint, done |-> FALSE, res |-> NoPair]

\* nothing read yet; else whether localStorage.getItem threw, and the item it gave
NoRead == [read |-> FALSE, threw |-> FALSE, item |-> NoItem]

InitCommon ==
  /\ nPlaces = 0 /\ idx = 0
  /\ place = NoPlace /\ coords = NoPair /\ source = "none" /\ trace = <<>>
  /\ resp = NoResp /\ raw = NoRead
  /\ allMarkers = <<>>
  /\ created = 0 /\ failed = 0 /\ geocoded = 0 /\ usedLatLng = 0 /\ skipped = 0
  /\ reqTotal = 0 /\ sleeps = 0 /\ sinceReq = 0
  /\ lastSet = [a \in Addrs |-> NoPair]
  /\ got = NoLookup

Init ==
  /\ InitCommon
  /\ probe = NoProbe
  /\ pc = "load"
  /\ mode \in StorageModes
  /\ \E it \in InitItems : store = [EmptyStore EXCEPT ![CacheKey(Addr1)] = it]
  /\ mode = "denied" => store = EmptyStore

\* const rows = await loadRows(); const places = mapRowsToSchema(rows)
LoadRowsOk ==
  /\ pc = "load"
  /\ nPlaces' \in 0..MaxPlaces
  /\ pc' = "loop"
  /\ UNCHANGED <<idx, place, coords, source, trace, resp, raw, store, mode, counters, clock, exercise>>

\* loadRows throws: the outer catch reports it, nothing else runs
LoadRowsFail ==
  /\ pc = "load"
  /\ pc' = "aborted"
  /\ UNCHANGED <<nPlaces, idx, place, coords, source, trace, resp, raw, store, mode, counters, clock, exercise>>

\* for (const place of places): the next Place, and getCoordsForPlace(place) is called
NextPlace ==
  /\ pc = "loop" /\ idx < nPlaces
  /\ place' \in Places
  /\ coords' = NoPair /\ source' = "none" /\ trace' = <<>> /\ resp' = NoResp /\ raw' = NoRead
  /\ pc' = "explicit"
  /\ UNCHANGED <<nPlaces, idx, store, mode, counters, clock, exercise>>

\* the loop is over: summary, fitBounds, listeners
Finish ==
  /\ pc = "loop" /\ idx = nPlaces
  /\ pc' = "done"
  /\ UNCHANGED <<nPlaces, idx, place, coords, source, trace, resp, raw, store, mode, counters, clock, exercise>>

\* a stage's outcome: return its pair, or go on to the next stage
StageReturn(r, src, nextPc) ==
  IF r.ok THEN coords' = r /\ source' = src /\ pc' = "marker"
  ELSE coords' = coords /\ source' = source /\ pc' = nextPc

\* mutant: the combined field is preferred to the explicit fields
StageExplicit_PreferCombined ==
  /\ pc = "explicit"
  /\ IF CombinedCoords(place).ok
     THEN trace' = Append(trace, "combined") /\ StageReturn(CombinedCoords(place), "combined", "combined")
     ELSE trace' = Append(trace, "explicit") /\ StageReturn(ExplicitCoords(place), "explicit", "combined")
  /\ UNCHANGED <<nPlaces, idx, place, resp, raw, store, mode, counters, clock, exercise>>

\* stage 1: return the explicit pair, or go on to the combined field
StageExplicit ==
  /\ pc = "explicit"
  /\ trace' = Append(trace, "explicit")
  /\ StageReturn(ExplicitCoords(place), "explicit", "combined")
  /\ UNCHANGED <<nPlaces, idx, place, resp, raw, store, mode, counters, clock, exercise>>

\* stage 2: return the combined field's pair, or go on to the address
StageCombined ==
  /\ pc = "combined"
  /\ trace' = Append(trace, "combined")
  /\ StageReturn(CombinedCoords(place), "combined", "address")
  /\ UNCHANGED <<nPlaces, idx, place, resp, raw, store, mode, counters, clock, exercise>>

\* no address: return null; else the cache lookup, and on a hit its pair
CacheLookup(addr, cached) ==
  IF addr = <<>>
  THEN /\ trace' = trace /\ coords' = NoPair /\ source' = "noAddress" /\ pc' = "marker"
       /\ raw' = raw
  ELSE /\ trace' = Append(trace, "cache")
       /\ raw' = [read |-> TRUE, threw |-> mode = "denied",
                  item |-> IF mode = "denied" THEN NoItem ELSE store[CacheKey(addr)]]
       /\ StageReturn(cached, "cache", "geocode")

StageCache ==
  /\ pc = "address"
  /\ CacheLookup(trim(place.direccion),
                 IF trim(place.direccion) = <<>> THEN NoCached
                 ELSE getCachedGeocode(store, mode, trim(place.direccion)))
  /\ UNCHANGED <<nPlaces, idx, place, resp, store, mode, counters, clock, exercise>>

\* geocodeAddressNominatim(addr) sends its request
GeocodeRequest ==
  /\ pc = "geocode"
  /\ trace' = Append(trace, "request")
  /\ reqTotal' = reqTotal + 1
  /\ sinceReq' = 0
  /\ pc' = "awaitGeocode"
  /\ UNCHANGED <<nPlaces, idx, place, coords, source, resp, raw, store, mode, counters, sleeps, exercise>>

\* the response arrives after some latency; on failure return null, else
\* setCachedGeocode and start the sleep
GeocodeReturn(geo, addr) ==
  IF ~geo.ok
  THEN /\ coords' = NoPair /\ source' = "geocodeFailed" /\ pc' = "marker"
       /\ UNCHANGED <<store, trace, lastSet>>
  ELSE /\ store' = setCachedGeocode(store, mode, addr, geo.lat, geo.lng)
       /\ lastSet' = [lastSet EXCEPT ![addr] = Pair(geo.lat, geo.lng)]
       /\ trace' = Append(trace, "cacheSet")
       /\ coords' = Pair(geo.lat, geo.lng) /\ source' = "geocoded"
       /\ pc' = "sleep"

GeocodeResponse ==
  /\ pc = "awaitGeocode"
  /\ \E r \in Responses, k \in 0..MaxLatencySteps :
       /\ resp' = r
       /\ sinceReq' = Min(sinceReq + k * TimeStep, GEOCODE_DELAY_MS)
       /\ GeocodeReturn(geocodeAddressNominatim(r), trim(place.direccion))
  /\ UNCHANGED <<nPlaces, idx, place, raw, mode, counters, reqTotal, sleeps, got, probe>>

\* await sleep(GEOCODE_DELAY_MS); return [geo.lat, geo.lng]
SleepDone ==
  /\ pc = "sleep"
  /\ trace' = Append(trace, "sleep")
  /\ sleeps' = sleeps + 1
  /\ sinceReq' = Min(sinceReq + GEOCODE_DELAY_MS, GEOCODE_DELAY_MS)
  /\ pc' = "marker"
  /\ UNCHANGED <<nPlaces, idx, place, coords, source, resp, raw, store, mode, counters, reqTotal, exercise>>

\* mutant: no try / catch around marker.addTo, its exception reaches the outer
\* catch and ends the run
MarkerStep_NoInnerTry ==
  /\ pc = "marker"
  /\ IF ~coords.ok
     THEN /\ skipped' = skipped + 1 /\ idx' = idx + 1 /\ pc' = "loop"
          /\ UNCHANGED <<allMarkers, created, failed, geocoded, usedLatLng>>
     ELSE /\ IF toNumberOrNull(Str(place.latitud)).ok /\ toNumberOrNull(Str(place.longitud)).ok
             THEN usedLatLng' = usedLatLng + 1 /\ geocoded' = geocoded
             ELSE geocoded' = geocoded + 1 /\ usedLatLng' = usedLatLng
          /\ \E addOk \in BOOLEAN :
               IF addOk
               THEN /\ allMarkers' = Append(allMarkers, idx + 1) /\ created' = created + 1
                    /\ idx' = idx + 1 /\ pc' = "loop"
               ELSE /\ allMarkers' = allMarkers /\ created' = created
                    /\ idx' = idx /\ pc' = "aborted"
          /\ failed' = failed /\ skipped' = skipped
  /\ place' = NoPlace /\ coords' = NoPair /\ source' = "none" /\ trace' = <<>> /\ resp' = NoResp
  /\ raw' = NoRead
  /\ UNCHANGED <<nPlaces, store, mode, clock, exercise>>

\* the loop body after getCoordsForPlace returned: skip, or count and add the
\* marker; the iteration's bindings (place, coords) end with it
MarkerStep ==
  /\ pc = "marker"
  /\ IF ~coords.ok
     THEN /\ skipped' = skipped + 1
          /\ UNCHANGED <<allMarkers, created, failed, geocoded, usedLatLng>>
     ELSE /\ IF toNumberOrNull(Str(place.latitud)).ok /\ toNumberOrNull(Str(place.longitud)).ok
             THEN usedLatLng' = usedLatLng + 1 /\ geocoded' = geocoded
             ELSE geocoded' = geocoded + 1 /\ usedLatLng' = usedLatLng
          /\ \E addOk \in BOOLEAN :
               IF addOk
               THEN allMarkers' = Append(allMarkers, idx + 1) /\ created' = created + 1 /\ failed' = failed
               ELSE allMarkers' = allMarkers /\ created' = created /\ failed' = failed + 1
          /\ skipped' = skipped
  /\ idx' = idx + 1
  /\ place' = NoPlace /\ coords' = NoPair /\ source' = "none" /\ trace' = <<>> /\ resp' = NoResp
  /\ raw' = NoRead
  /\ pc' = "loop"
  /\ UNCHANGED <<nPlaces, store, mode, clock, exercise>>

Next ==
  \/ LoadRowsOk
  \/ LoadRowsFail
  \/ NextPlace
  \/ Finish
  \/ StageExplicit
  \/ StageCombined
  \/ StageCache
  \/ GeocodeRequest
  \/ GeocodeResponse
  \/ SleepDone
  \/ MarkerStep

Spec == Init /\ [][Next]_vars

\* the positions of the handler
Positions == {"load", "loop", "explicit", "combined", "address", "geocode",
              "awaitGeocode", "sleep", "marker", "done", "aborted"}

\* the handler moves on from a position where it has not ended
Resume == pc \notin {"done", "aborted"} /\ pc' \in Positions

\* the event loop resumes the handler whenever the promise it awaits settles:
\* the feed fetch and every geocoding request get a response or an error, and
\* the timer of sleep fires
SpecLive == Init /\ [][Next]_vars /\ WF_pc(Resume)

\* ------------------------------------------------------------------------
\* The cache by itself: setCachedGeocode / getCachedGeocode on a working,
\* initially empty storage
\* ------------------------------------------------------------------------

\* 0, -0.5, 19.05, -99.13, 19.5
NumSamples == {0, 0 - 50, 1905, 0 - 9913, 1950}

InitCache ==
  /\ InitCommon
  /\ probe = NoProbe
  /\ pc = "cache"
  /\ store = EmptyStore
  /\ mode = "ok"

CacheSet ==
  /\ pc = "cache"
  /\ \E a \in Addrs, lat \in NumSamples, lng \in NumSamples :
       /\ store' = setCachedGeocode(store, mode, a, lat, lng)
       /\ lastSet' = [lastSet EXCEPT ![a] = Pair(lat, lng)]
  /\ got' = NoLookup
  /\ UNCHANGED <<pc, nPlaces, idx, place, coords, source, trace, resp, raw, mode, counters, clock, probe>>

CacheGet ==
  /\ pc = "cache"
  /\ \E a \in Addrs : got' = [addr |-> a, res |-> getCachedGeocode(store, mode, a)]
  /\ UNCHANGED <<pc, nPlaces, idx, place, coords, source, trace, resp, raw, store, mode, counters, clock, lastSet, probe>>

NextCache == CacheSet \/ CacheGet

SpecCache == InitCache /\ [][NextCache]_vars

\* ------------------------------------------------------------------------
\* parseCoordinatePair on two-token texts, under each bounds hint
\* ------------------------------------------------------------------------

T_45p0 == <<"4", "5", ".", "0">>
T_50p0 == <<"5", "0", ".", "0">>
T_m10 == <<"-", "1", "0">>
T_120 == <<"1", "2", "0">>

Tokens == {T_45p0, T_50p0, T_m10, T_19p43, T_120}
Separators == {<<",">>, <<" ">>, <<";", " ">>, <<" ", "|", " ">>}

Hint(minLat, maxLat, minLng, maxLng) ==
  [set |-> TRUE, minLat |-> minLat * Scale, maxLat |-> maxLat * Scale,
   minLng |-> minLng * Scale, maxLng |-> maxLng * Scale]

\* null; a box holding (45, 50) but not (50, 45); the whole globe; a box
\* holding none of the sample pairs
Hints == {NoHint, Hint(40, 47, 48, 55), Hint(0 - 90, 90, 0 - 180, 180), Hint(80, 85, 170, 175)}

InitParse ==
  /\ InitCommon
  /\ pc = "parse"
  /\ store = EmptyStore
  /\ mode = "ok"
  /\ \E a \in Tokens, sep \in Separators, b \in Tokens, h \in Hints :
       probe = [a |-> a, sep |-> sep, b |-> b, hint |-> h, done |-> FALSE, res |-> NoPair]

\* parseCoordinatePair(text) in a build whose BOUNDS_HINT is probe.hint
ParseCall ==
  /\ pc = "parse"
  /\ ~probe.done
  /\ probe' = [probe EXCEPT !.done = TRUE,
                            !.res = parseCoordinatePairWith(probe.a \o probe.sep \o probe.b,
                                                            FORCE_COORDINATE_ORDER, probe.hint)]
  /\ UNCHANGED <<pc, nPlaces, idx, place, coords, source, trace, resp, raw, store, mode,
                 counters, clock, lastSet, got>>

NextParse == ParseCall

SpecParse == InitParse /\ [][NextParse]_vars

\* ------------------------------------------------------------------------
\* Properties
\* ------------------------------------------------------------------------

StageOrder == <<"explicit", "combined", "cache", "request", "cacheSet", "sleep">>

IsPrefix(t, u) == Len(t) <= Len(u) /\ SubSeq(u, 1, Len(t)) = t

\* the number a non-empty decimal text of a latitud / longitud field states
FieldNumber(t) == Number(ReplaceFirst(t, ",", "."))
IsNumericText(t) == t # <<>> /\ FieldNumber(t).finite

C2_NoCoordsGoesToAddress ==
  (/\ pc = "marker"
   /\ place.latitud = <<>> /\ place.longitud = <<>> /\ place.coordenadas = <<>>
   /\ place.direccion # <<>>)
  => /\ source \in {"cache", "geocoded", "geocodeFailed"}
     /\ Len(trace) >= 3 /\ trace[3] = "cache"

C4_ExplicitSwapCorrected ==
  (/\ pc = "marker"
   /\ IsNumericText(place.latitud) /\ IsNumericText(place.longitud)
   /\ ~(isValidLat(FieldNumber(place.latitud).v) /\ isValidLng(FieldNumber(place.longitud).v))
   /\ isValidLat(FieldNumber(place.longitud).v) /\ isValidLng(FieldNumber(place.latitud).v))
  => /\ coords = Pair(FieldNumber(place.longitud).v, FieldNumber(place.latitud).v)
     /\ source = "explicit"

C4_Witness ==
  /\ pc = "marker"
  /\ place.latitud = T_m180 /\ place.longitud = T_19c43
  /\ coords = Pair(1943, 0 - 180 * Scale)

\* C5: a Place with no address, empty latitud and longitud and no parseable
\* combined field is unresolved: getCoordsForPlace returns null, the loop adds
\* no marker for it and increments skipped by exactly one.
C5_NothingToResolveIsSkipped ==
  [][(/\ pc = "marker"
      /\ place.direccion = <<>> /\ place.latitud = <<>> /\ place.longitud = <<>>
      /\ ~parseCoordinatePair(trim(place.coordenadas)).ok)
     => /\ ~coords.ok
        /\ skipped' = skipped + 1
        /\ allMarkers' = allMarkers /\ created' = created]_vars

\* C6: two consecutive geocoding requests of a run are at least
\* GEOCODE_DELAY_MS apart, whether the earlier one succeeded or failed, so a
\* run that sent N requests has slept at least (N-1) * GEOCODE_DELAY_MS.
C6_RequestsSpaced ==
  /\ (pc = "geocode" /\ reqTotal >= 1) => sinceReq >= GEOCODE_DELAY_MS
  /\ reqTotal >= 1 => sleeps * GEOCODE_DELAY_MS >= (reqTotal - 1) * GEOCODE_DELAY_MS

\* C7: every pair getCoordsForPlace returns has its latitude in [-90, 90] and
\* its longitude in [-180, 180], whatever the cache holds and the service answers.
C7_ReturnedPairValid ==
  (pc = "marker" /\ coords.ok) => isValidLat(coords.lat) /\ isValidLng(coords.lng)

\* the service's answers the geocoding client treats as failures: a network
\* error, a non-success status, a body that is no JSON array, an empty array,
\* a first element whose lat or lon is missing or is no number
IsNumericValue(v) == v.def /\ Number(ReplaceFirst(v.s, ",", ".")).finite
FailedResponse(r) ==
  \/ r.kind \in {"network", "http", "badJson", "notArray", "emptyArray"}
  \/ r.kind = "array" /\ (~IsNumericValue(r.lat) \/ ~IsNumericValue(r.lon))

C9_CacheRoundTrip ==
  got.addr # <<>> =>
    got.res = IF lastSet[got.addr].ok
              THEN [ok |-> TRUE, lat |-> lastSet[got.addr].lat, lng |-> lastSet[got.addr].lng]
              ELSE NoCached

C9_Witness ==
  /\ got.addr = Addr1 /\ got.res = [ok |-> TRUE, lat |-> 1905, lng |-> 0 - 50]
  /\ lastSet[Addr2].ok /\ lastSet[Addr2] # lastSet[Addr1]

\* what getCoordsForPlace returns for a Place on an empty cache, given the
\* service's answer to its request
ResolveOnEmptyCache(p, r) ==
  IF ExplicitCoords(p).ok THEN ExplicitCoords(p)
  ELSE IF CombinedCoords(p).ok THEN CombinedCoords(p)
  ELSE IF trim(p.direccion) = <<>> THEN NoPair
  ELSE LET geo == geocodeAddressNominatim(r)
       IN IF geo.ok THEN Pair(geo.lat, geo.lng) ELSE NoPair

\* the storage gave nothing usable: the read threw, or the item is missing,
\* not JSON, or JSON without numeric lat and lng
UnusableRead(rd) ==
  rd.read /\ (rd.threw \/ rd.item.kind # "json" \/ rd.item.lat.t # "num" \/ rd.item.lng.t # "num")

\* C10: a storage that throws on reads or writes, or holds a damaged item for
\* the address, changes nothing: getCoordsForPlace returns what it returns on
\* an empty cache.
C10_CacheFailureSwallowed ==
  /\ (pc \in {"marker", "sleep"} /\ UnusableRead(raw)) => coords = ResolveOnEmptyCache(place, resp)
  /\ (pc = "geocode" \/ pc = "awaitGeocode") => UnusableRead(raw)
  /\ (pc = "marker" /\ source = "cache") => ~UnusableRead(raw)

C10_Witness ==
  /\ pc = "marker" /\ mode = "full" /\ raw.item = TextItem
  /\ source = "geocoded" /\ coords = Pair(1943, 0 - 9913)

\* the number a token denotes
TokenValue(t) == toNumberOrNull(Str(t)).v

\* both readings of (a, b) are valid coordinates
BothOrdersValid(a, b) ==
  /\ a >= 0 - 90 * Scale /\ a <= 90 * Scale
  /\ b >= 0 - 90 * Scale /\ b <= 90 * Scale

InHint(lat, lng, h) ==
  h.set /\ h.minLat <= lat /\ lat <= h.maxLat /\ h.minLng <= lng /\ lng <= h.maxLng

\* C11: in auto mode, for a text of two numeric tokens (a, b) valid in both
\* orders, parseCoordinatePair returns [b, a] exactly when a hint is configured
\* and holds (b, a) but not (a, b); in every other case it returns [a, b].
C11_AmbiguousPairByHint ==
  (/\ pc = "parse" /\ probe.done
   /\ FORCE_COORDINATE_ORDER = "auto"
   /\ BothOrdersValid(TokenValue(probe.a), TokenValue(probe.b)))
  => probe.res =
       IF /\ InHint(TokenValue(probe.b), TokenValue(probe.a), probe.hint)
          /\ ~InHint(TokenValue(probe.a), TokenValue(probe.b), probe.hint)
       THEN Pair(TokenValue(probe.b), TokenValue(probe.a))
       ELSE Pair(TokenValue(probe.a), TokenValue(probe.b))

\* an ambiguous pair that the hint resolves to the swapped order
C11_Witness ==
  /\ pc = "parse" /\ probe.done /\ probe.hint.set
  /\ BothOrdersValid(TokenValue(probe.a), TokenValue(probe.b))
  /\ TokenValue(probe.a) # TokenValue(probe.b)
  /\ probe.res = Pair(TokenValue(probe.b), TokenValue(probe.a))

\* the storage can be read and holds a {lat, lng} entry for the address
HoldsEntry(addr) ==
  /\ mode # "denied"
  /\ store[CacheKey(addr)].kind = "json"
  /\ store[CacheKey(addr)].lat.t = "num"
  /\ store[CacheKey(addr)].lng.t = "num"

EntryPair(addr) ==
  Pair(Number(store[CacheKey(addr)].lat.s).v, Number(store[CacheKey(addr)].lng.s).v)

\* C12: a Place at the address stage whose address has a cache entry gets the
\* cached pair with no request, no delay and the cache unchanged; and no
\* request is ever sent for an address that was geocoded successfully earlier
\* in the run with working storage.
C12_CacheHitSkipsGeocode ==
  [][/\ (pc = "address" /\ trim(place.direccion) # <<>> /\ HoldsEntry(trim(place.direccion)))
        => /\ pc' = "marker"
           /\ coords' = EntryPair(trim(place.direccion))
           /\ source' = "cache"
           /\ reqTotal' = reqTotal /\ sleeps' = sleeps /\ sinceReq' = sinceReq
           /\ store' = store
     /\ (reqTotal' # reqTotal)
        => ~(mode = "ok" /\ lastSet[trim(place.direccion)].ok)
     /\ (pc' = "sleep") => source' = "geocoded"]_vars

\* a later Place resolved from the entry that an earlier Place's geocode wrote
C12_Witness ==
  /\ pc = "marker" /\ source = "cache" /\ idx >= 1 /\ mode = "ok"
  /\ reqTotal = 1
  /\ lastSet[trim(place.direccion)].ok
  /\ coords = lastSet[trim(place.direccion)]

RECURSIVE Increasing(_)
Increasing(seq) ==
  IF Len(seq) <= 1 THEN TRUE ELSE seq[1] < seq[2] /\ Increasing(Tail(seq))

\* every Place before idx was counted once, and markers stand in feed order
CountedOnce ==
  /\ created + failed + skipped = idx
  /\ idx <= nPlaces
  /\ Len(allMarkers) = created
  /\ Increasing(allMarkers)
  /\ \A i \in 1..Len(allMarkers) : allMarkers[i] <= idx

\* C13: once the feed is loaded the run completes, every Place is processed
\* exactly once and in feed order whatever geocoding, cache and marker failures
\* occur, at the end created + failed + skipped = number of Places; only a
\* feed-fetch failure aborts the run, and then no marker is created.
C13_RunCompletes ==
  /\ [](pc \in {"load", "aborted"} \/ CountedOnce)
  /\ [](pc = "done" => idx = nPlaces /\ created + failed + skipped = nPlaces)
  /\ [](pc = "aborted" => allMarkers = <<>> /\ created = 0 /\ idx = 0 /\ reqTotal = 0)
  /\ [][/\ pc' = "aborted" => pc \in {"load", "aborted"}
        /\ idx' \in {idx, idx + 1}
        /\ idx' = idx + 1 => pc = "marker"]_vars
  /\ (pc \notin {"load", "aborted"}) ~> (pc = "done")

\* a finished run in which one Place failed geocoding with unusable storage
\* and another's marker could not be added
C13_Witness ==
  /\ pc = "done" /\ nPlaces = MaxPlaces
  /\ skipped = 1 /\ failed = 1 /\ reqTotal >= 1 /\ mode # "ok"

====
